---- MODULE Spec2Model ----
(***************************************************************************)
(* A model of package targz (walle/targz): Compress and Extract acting on  *)
(* a file system.  Strings are sequences of one-character strings, so that *)
(* the slicing the code does on paths (inputFilePath[:len-1],              *)
(* evaluatedPath[len(subPath):]) is modelled character by character.       *)
(* The file system maps each real (symlink-free) absolute path to a node:  *)
(* a directory, a regular file with its contents, or a symbolic link.      *)
(***************************************************************************)
EXTENDS Naturals, Sequences, FiniteSets, TLC

VARIABLES fs, calls

vars == <<fs, calls>>

----------------------------------------------------------------------------
(* Strings and the path functions of path/filepath                         *)

Sep == "/"
Star == "*"
Root == <<"/">>
Dot == <<".">>
DotDot == <<".", ".">>

\* the characters of the model in byte order (os.ReadDir sorts by name)
Alphabet == <<"*", ".", "/", "a", "b", "c", "d", "e", "f", "g", "l", "n", "o", "p", "q", "s", "t", "x">>

Rank(c) == CHOOSE i \in 1..Len(Alphabet) : Alphabet[i] = c

RECURSIVE StrLess(_, _)
StrLess(a, b) ==
    IF b = <<>> THEN FALSE
    ELSE IF a = <<>> THEN TRUE
    ELSE IF a[1] = b[1] THEN StrLess(Tail(a), Tail(b))
    ELSE Rank(a[1]) < Rank(b[1])

Contains(s, c) == \E i \in 1..Len(s) : s[i] = c

HasPrefix(s, p) == Len(p) <= Len(s) /\ SubSeq(s, 1, Len(p)) = p

\* index of the last separator of s, 0 when there is none
LastSep(s) ==
    IF Contains(s, Sep)
    THEN CHOOSE i \in 1..Len(s) : s[i] = Sep /\ \A j \in (i+1)..Len(s) : s[j] # Sep
    ELSE 0

IsAbs(s) == Len(s) > 0 /\ s[1] = Sep

\* the non-empty elements of s between separators
RECURSIVE SplitFrom(_, _, _)
SplitFrom(s, i, cur) ==
    IF i > Len(s) THEN (IF cur = <<>> THEN <<>> ELSE <<cur>>)
    ELSE IF s[i] = Sep
         THEN (IF cur = <<>> THEN SplitFrom(s, i + 1, <<>>)
               ELSE <<cur>> \o SplitFrom(s, i + 1, <<>>))
         ELSE SplitFrom(s, i + 1, Append(cur, s[i]))

Parts(s) == SplitFrom(s, 1, <<>>)

RECURSIVE JoinParts(_)
JoinParts(ps) ==
    IF ps = <<>> THEN <<>>
    ELSE IF Len(ps) = 1 THEN ps[1]
    ELSE ps[1] \o <<Sep>> \o JoinParts(Tail(ps))

RECURSIVE CleanParts(_, _, _)
CleanParts(ps, acc, rooted) ==
    IF ps = <<>> THEN acc
    ELSE LET p == Head(ps)
             r == Tail(ps)
         IN IF p = Dot THEN CleanParts(r, acc, rooted)
            ELSE IF p = DotDot
                 THEN IF acc # <<>> /\ acc[Len(acc)] # DotDot
                      THEN CleanParts(r, SubSeq(acc, 1, Len(acc) - 1), rooted)
                      ELSE IF rooted THEN CleanParts(r, acc, rooted)
                           ELSE CleanParts(r, Append(acc, DotDot), rooted)
                 ELSE CleanParts(r, Append(acc, p), rooted)

\* filepath.Clean
Clean(s) ==
    IF s = <<>> THEN Dot
    ELSE LET ps == CleanParts(Parts(s), <<>>, IsAbs(s))
         IN IF IsAbs(s) THEN <<Sep>> \o JoinParts(ps)
            ELSE IF ps = <<>> THEN Dot ELSE JoinParts(ps)

\* filepath.Split: the directory part, trailing separator kept
SplitDir(s) == SubSeq(s, 1, LastSep(s))

\* filepath.Dir (and path.Dir, the same on slash-separated paths)
Dir(s) == Clean(SplitDir(s))

RECURSIVE TrimTrailingSeps(_)
TrimTrailingSeps(s) ==
    IF Len(s) > 0 /\ s[Len(s)] = Sep THEN TrimTrailingSeps(SubSeq(s, 1, Len(s) - 1))
    ELSE s

\* filepath.Base
Base(s) ==
    IF s = <<>> THEN Dot
    ELSE LET t == TrimTrailingSeps(s)
         IN IF t = <<>> THEN <<Sep>>
            ELSE SubSeq(t, LastSep(t) + 1, Len(t))

\* filepath.Join of two elements
Join(a, b) ==
    IF a = <<>> /\ b = <<>> THEN <<>>
    ELSE IF a = <<>> THEN Clean(b)
    ELSE IF b = <<>> THEN Clean(a)
    ELSE Clean(a \o <<Sep>> \o b)

\* the working directory of the process
Cwd == <<"/", "t">>

\* filepath.Abs
Abs(s) == IF IsAbs(s) THEN Clean(s) ELSE Join(Cwd, s)

----------------------------------------------------------------------------
(* The file system and the os primitives the package calls                 *)

\* file contents: raw bytes, or a gzip-compressed tar stream, abstracted to
\* its sequence of entries and to how the stream ends ("eof": the end marker
\* is there; "bad": the stream breaks off or is malformed after the entries)
Raw(b) == [fmt |-> "raw", bytes |-> b, entries |-> <<>>, tail |-> "eof"]
TarGz(es, tl) == [fmt |-> "targz", bytes |-> <<>>, entries |-> es, tail |-> tl]

DirNode == [kind |-> "dir", data |-> Raw(<<>>), target |-> <<>>]
FileNode(d) == [kind |-> "file", data |-> d, target |-> <<>>]
LinkNode(t) == [kind |-> "link", data |-> Raw(<<>>), target |-> t]

\* how many symbolic links one path resolution follows before ELOOP
MaxLinks == 2

Child(dir, name) == IF dir = Root THEN dir \o name ELSE dir \o <<Sep>> \o name

ParentOf(k) == IF LastSep(k) <= 1 THEN Root ELSE SubSeq(k, 1, LastSep(k) - 1)

NameOf(k) == SubSeq(k, LastSep(k) + 1, Len(k))

Under(k, top) == k = top \/ HasPrefix(k, Child(top, <<>>))

Children(f, dir) == {k \in DOMAIN f : k # dir /\ ParentOf(k) = dir}

Failed(e) == [st |-> e, real |-> <<>>]

\* Path resolution as the kernel does it, from the real directory cur along
\* the elements ps.  st = "ok": real is the node reached; st = "new": every
\* element but the last resolved and the last is missing, real being the
\* path a create would make; otherwise st is the errno.
RECURSIVE Walk(_, _, _, _, _)
Walk(f, cur, ps, follow, fuel) ==
    IF ps = <<>> THEN [st |-> "ok", real |-> cur]
    ELSE IF f[cur].kind # "dir" THEN Failed("ENOTDIR")
    ELSE LET nxt == Child(cur, Head(ps))
             rest == Tail(ps)
         IN IF nxt \notin DOMAIN f
            THEN (IF rest = <<>> THEN [st |-> "new", real |-> nxt] ELSE Failed("ENOENT"))
            ELSE IF f[nxt].kind = "link" /\ (rest # <<>> \/ follow)
                 THEN IF fuel = 0 THEN Failed("ELOOP")
                      ELSE LET t == Walk(f, Root, Parts(f[nxt].target), TRUE, fuel - 1)
                           IN IF t.st = "ok" THEN Walk(f, t.real, rest, follow, fuel)
                              ELSE IF t.st = "new" /\ rest # <<>> THEN Failed("ENOENT")
                              ELSE t
                 ELSE Walk(f, nxt, rest, follow, fuel)

Resolve(f, p, follow) == Walk(f, Root, Parts(p), follow, MaxLinks)

\* os.Stat / os.Lstat: [err, node]
StatOf(w, f) ==
    IF w.st = "ok" THEN [err |-> "nil", real |-> w.real, kind |-> f[w.real].kind]
    ELSE [err |-> (IF w.st = "new" THEN "ENOENT" ELSE w.st), real |-> <<>>, kind |-> "none"]

Stat(f, p) == StatOf(Resolve(f, p, TRUE), f)
Lstat(f, p) == StatOf(Resolve(f, p, FALSE), f)

\* filepath.EvalSymlinks: [err, path]
EvalSymlinks(f, p) ==
    LET s == Stat(f, p) IN [err |-> s.err, path |-> s.real]

Put(f, k, node) == [x \in DOMAIN f \cup {k} |-> IF x = k THEN node ELSE f[x]]

Drop(f, gone) == [x \in DOMAIN f \ gone |-> f[x]]

\* os.Mkdir
Mkdir(f, p) ==
    LET w == Resolve(f, p, FALSE)
    IN IF w.st = "new" THEN [fs |-> Put(f, w.real, DirNode), err |-> "nil"]
       ELSE [fs |-> f, err |-> (IF w.st = "ok" THEN "EEXIST" ELSE w.st)]

\* os.MkdirAll
RECURSIVE MkdirAll(_, _)
MkdirAll(f, p) ==
    LET s == Stat(f, p)
    IN IF s.err = "nil"
       THEN [fs |-> f, err |-> (IF s.kind = "dir" THEN "nil" ELSE "ENOTDIR")]
       ELSE LET parent == SplitDir(TrimTrailingSeps(p))
                up == IF Len(parent) > 0 THEN MkdirAll(f, parent)
                      ELSE [fs |-> f, err |-> "nil"]
            IN IF up.err # "nil" THEN up
               ELSE LET m == Mkdir(up.fs, p)
                        l == Lstat(up.fs, p)
                    IN IF m.err = "nil" THEN m
                       ELSE IF l.err = "nil" /\ l.kind = "dir"
                            THEN [fs |-> up.fs, err |-> "nil"]
                            ELSE [fs |-> up.fs, err |-> m.err]

\* os.RemoveAll: the node at p (a link is not followed) and all below it;
\* a path that is not there is no error
RemoveAll(f, p) ==
    LET w == Resolve(f, p, FALSE)
    IN IF w.st = "ok" /\ w.real # Root
       THEN Drop(f, {k \in DOMAIN f : Under(k, w.real)})
       ELSE f

\* os.Remove: a file, a link or an empty directory
Remove(f, p) ==
    LET w == Resolve(f, p, FALSE)
    IN IF w.st # "ok" THEN [fs |-> f, err |-> (IF w.st = "new" THEN "ENOENT" ELSE w.st)]
       ELSE IF Children(f, w.real) # {} \/ w.real = Root THEN [fs |-> f, err |-> "ENOTEMPTY"]
       ELSE [fs |-> Drop(f, {w.real}), err |-> "nil"]

\* os.Create: O_RDWR|O_CREATE|O_TRUNC, links followed
Create(f, p) ==
    LET w == Resolve(f, p, TRUE)
    IN IF w.st = "new" THEN [fs |-> Put(f, w.real, FileNode(Raw(<<>>))), err |-> "nil", real |-> w.real]
       ELSE IF w.st # "ok" THEN [fs |-> f, err |-> w.st, real |-> <<>>]
       ELSE IF f[w.real].kind = "dir" THEN [fs |-> f, err |-> "EISDIR", real |-> <<>>]
       ELSE [fs |-> Put(f, w.real, FileNode(Raw(<<>>))), err |-> "nil", real |-> w.real]

\* the names of a set of paths in byte order
RECURSIVE SortNames(_)
SortNames(S) ==
    IF S = {} THEN <<>>
    ELSE LET m == CHOOSE a \in S : \A b \in S : a = b \/ StrLess(a, b)
         IN <<m>> \o SortNames(S \ {m})

\* os.ReadDir: [err, names], the names sorted
ReadDir(f, p) ==
    LET s == Stat(f, p)
    IN IF s.err # "nil" THEN [err |-> s.err, real |-> <<>>, names |-> <<>>]
       ELSE IF s.kind # "dir" THEN [err |-> "ENOTDIR", real |-> <<>>, names |-> <<>>]
       ELSE [err |-> "nil", real |-> s.real,
             names |-> SortNames({NameOf(k) : k \in Children(f, s.real)})]

----------------------------------------------------------------------------
(* Package targz                                                           *)

\* one tar record: the header's name, type, link target and declared size,
\* the payload that follows it, and whether the stream breaks off inside
\* the payload (short)
Entry(n, tf, ln, sz, pl, sh) ==
    [name |-> n, typeflag |-> tf, linkname |-> ln, size |-> sz, payload |-> pl, short |-> sh]

\* the length in bytes of a file's contents; a tar stream is never empty
Size(d) == IF d.fmt = "raw" THEN Len(d.bytes) ELSE 1 + Len(d.entries)

\* what the archive file holds while it is being written and something reads
\* it: the gzip header is on disk, the tar blocks are still in the compressor
Partial == TarGz(<<>>, "bad")

\* stripTrailingSlashes
stripTrailingSlashes(path) ==
    IF Len(path) > 0 /\ path[Len(path)] = Sep THEN SubSeq(path, 1, Len(path) - 1)
    ELSE path

\* makeAbsolute (the working directory is always resolvable here)
makeAbsolute(inputFilePath, outputFilePath) ==
    [in |-> Abs(inputFilePath), out |-> Abs(outputFilePath)]

\* a faulty loop of mkdirAll, which takes every path that exists for a
\* directory.  The formula of C5 tells it from FindUndoDir.
RECURSIVE FindUndoDirUnchecked(_, _, _)
FindUndoDirUnchecked(f, p, undoDir) ==
    LET s == Stat(f, p)
    IN IF s.err = "nil" THEN [err |-> "nil", undoDir |-> undoDir]
       ELSE IF s.err = "ENOENT" THEN FindUndoDirUnchecked(f, Dir(p), p)
       ELSE [err |-> s.err, undoDir |-> <<>>]

\* the loop of mkdirAll: walks up from dirPath to the first path that exists
RECURSIVE FindUndoDir(_, _, _)
FindUndoDir(f, p, undoDir) ==
    LET s == Stat(f, p)
        l == Lstat(f, p)
    IN IF s.err = "nil"
       THEN IF s.kind = "dir" THEN [err |-> "nil", undoDir |-> undoDir]
            ELSE IF l.err # "nil" THEN [err |-> l.err, undoDir |-> <<>>]
            ELSE IF l.kind = "dir" THEN [err |-> "nil", undoDir |-> undoDir]
            ELSE [err |-> "ENOTDIR", undoDir |-> <<>>]
       ELSE IF s.err = "ENOENT" THEN FindUndoDir(f, Dir(p), p)
       ELSE [err |-> s.err, undoDir |-> <<>>]

\* a faulty mkdirAll, whose undo removes the deepest directory it created,
\* not the shallowest.  The formula of C2 tells it from mkdirAll.
mkdirAllDeepest(f, dirPath) ==
    LET u == FindUndoDir(f, dirPath, <<>>)
        m == MkdirAll(f, dirPath)
    IN IF u.err # "nil" THEN [fs |-> f, err |-> u.err, undoDir |-> <<>>]
       ELSE IF u.undoDir = <<>> THEN [fs |-> f, err |-> "nil", undoDir |-> <<>>]
       ELSE IF m.err # "nil" THEN [fs |-> m.fs, err |-> m.err, undoDir |-> <<>>]
       ELSE [fs |-> m.fs, err |-> "nil", undoDir |-> dirPath]

\* mkdirAll: [fs, err, undoDir]; undoDir = <<>> stands for the no-op undo
mkdirAll(f, dirPath) ==
    LET u == FindUndoDir(f, dirPath, <<>>)
        m == MkdirAll(f, dirPath)
    IN IF u.err # "nil" THEN [fs |-> f, err |-> u.err, undoDir |-> <<>>]
       ELSE IF u.undoDir = <<>> THEN [fs |-> f, err |-> "nil", undoDir |-> <<>>]
       ELSE IF m.err # "nil" THEN [fs |-> m.fs, err |-> m.err, undoDir |-> <<>>]
       ELSE [fs |-> m.fs, err |-> "nil", undoDir |-> u.undoDir]

\* the state of a walk: the entries written so far, and how it stopped
\* ("go": it has not; "err": an error is returned; "panic": a run-time
\* panic unwinds the stack; "crash": the process dies)
Going(es) == [status |-> "go", err |-> "nil", entries |-> es]
Stopped(how, e, es) == [status |-> how, err |-> e, entries |-> es]

\* writeTarGz.  f is the file system with the archive file created at the
\* real path arch.  The archive is small: the compressor holds the tar blocks
\* until it is closed, and only the gzip header, which the first WriteHeader
\* puts on disk, is in the archive file while the walk runs.
writeTarGz(f, path, subPath, arch, st) ==
    LET opened == Stat(f, path)
        evaluated == EvalSymlinks(f, path)
        sub == EvalSymlinks(f, subPath)
        info == Lstat(f, path)
        link == IF evaluated.path # path THEN evaluated.path ELSE <<>>
        isLink == info.kind = "link"
        self == evaluated.path = arch
        first == st.entries = <<>>
        data == IF self THEN Partial ELSE f[evaluated.path].data
        size == IF isLink \/ (self /\ first) THEN 0 ELSE Size(data)
        name == SubSeq(evaluated.path, Len(sub.path) + 1, Len(evaluated.path))
        header == Entry(name, IF isLink THEN "symlink" ELSE "reg",
                        IF isLink THEN link ELSE <<>>, size, data, FALSE)
    IN IF opened.err # "nil" THEN Stopped("err", opened.err, st.entries)
       ELSE IF sub.err # "nil" THEN Stopped("err", sub.err, st.entries)
       ELSE IF Len(sub.path) > Len(evaluated.path) THEN Stopped("panic", "slice bounds out of range", st.entries)
       ELSE IF opened.kind = "dir" THEN Stopped("err", "EISDIR", Append(st.entries, header))
       ELSE IF Size(data) > size
            THEN Stopped("err", "ErrWriteTooLong", Append(st.entries, header))
       ELSE Going(Append(st.entries, header))

\* path.Match for patterns whose only meta-character is the star
RECURSIVE Match(_, _)
Match(pattern, name) ==
    IF pattern = <<>> THEN name = <<>>
    ELSE IF Head(pattern) = Star
         THEN Match(Tail(pattern), name) \/ (name # <<>> /\ Match(pattern, Tail(name)))
         ELSE name # <<>> /\ Head(name) = Head(pattern) /\ Match(Tail(pattern), Tail(name))

\* filepath.Glob for a pattern with the star in its last element only
Glob(f, pattern) ==
    LET d == ReadDir(f, Dir(pattern))
        hit == {i \in 1..Len(d.names) : Match(Base(pattern), d.names[i])}
    IN IF d.err # "nil" THEN <<>>
       ELSE [j \in 1..Cardinality(hit) |->
                Join(Dir(pattern), d.names[CHOOSE i \in hit : Cardinality({h \in hit : h < i}) = j - 1])]

\* writeDirectory, and its two loops
RECURSIVE writeDirectory(_, _, _, _, _)
RECURSIVE writeMatches(_, _, _, _, _)
RECURSIVE writeNames(_, _, _, _, _, _)

writeMatches(f, matches, subPath, arch, st) ==
    IF st.status # "go" \/ matches = <<>> THEN st
    ELSE IF Contains(Head(matches), Star)
         \* the match is globbed again and matches itself: unbounded recursion
         THEN Stopped("crash", "stack overflow", st.entries)
         ELSE writeMatches(f, Tail(matches), subPath, arch,
                           writeDirectory(f, Head(matches), subPath, arch, st))

writeNames(f, directory, names, subPath, arch, st) ==
    IF st.status # "go" \/ names = <<>> THEN st
    ELSE LET currentPath == Join(directory, Head(names))
             next == IF Lstat(f, currentPath).kind = "dir"
                     THEN writeDirectory(f, currentPath, subPath, arch, st)
                     ELSE writeTarGz(f, currentPath, subPath, arch, st)
         IN writeNames(f, directory, Tail(names), subPath, arch, next)

writeDirectory(f, directory, subPath, arch, st) ==
    IF Contains(directory, Star)
    THEN writeMatches(f, Glob(f, directory), subPath, arch, st)
    ELSE LET files == ReadDir(f, directory)
         IN IF files.err # "nil" THEN Stopped("err", files.err, st.entries)
            ELSE writeNames(f, directory, files.names, subPath, arch, st)

\* what one exported call did: the file system it left, how it ended ("ok",
\* "err": an error is returned; "panic"; "exit": handleErrorInDefer ended
\* the process; "crash"), the error, the directory mkdirAll's undo removes
\* (<<>>: the no-op undo), the real path of the archive file it created
\* (<<>>: none), the entries it wrote, and the handles it left open
Result(f, how, e, undo, arch, es, open) ==
    [fs |-> f, outcome |-> how, err |-> e, undoDir |-> undo, arch |-> arch,
     entries |-> es, leaked |-> open]

\* a faulty end of compress, which leaves the archive file it created when
\* the walk fails.  The formula of C11 tells it from compressWritten.
compressWrittenKeeps(file, w, outFilePath, rmFails) ==
    IF w.status # "go"
    THEN Result(Put(file.fs, file.real, FileNode(IF w.entries = <<>> THEN Raw(<<>>) ELSE Partial)),
                w.status, w.err, <<>>, file.real, w.entries, {"file", "gzipWriter", "tarWriter"})
    ELSE Result(Put(file.fs, file.real, FileNode(TarGz(w.entries, "eof"))),
                "ok", "nil", <<>>, file.real, w.entries, {})

\* compress after the walk: the three Close calls, or the deferred os.Remove.
\* file is what os.Create returned and w how writeDirectory ended.
\* rmFails = "file": the os.Remove of the deferred cleanup fails.
compressWritten(file, w, outFilePath, rmFails) ==
    LET \* the archive as the unclosed writers leave it on disk
        left == Put(file.fs, file.real,
                    FileNode(IF w.entries = <<>> THEN Raw(<<>>) ELSE Partial))
        writers == {"file", "gzipWriter", "tarWriter"}
    IN IF w.status \in {"panic", "crash"}
       THEN Result(left, w.status, w.err, <<>>, file.real, w.entries, writers)
       ELSE IF w.status = "err"
            THEN IF rmFails = "file" \/ Remove(left, outFilePath).err # "nil"
                 THEN Result(left, "exit", w.err, <<>>, file.real, w.entries, writers)
                 ELSE Result(Remove(left, outFilePath).fs, "err", w.err, <<>>, file.real,
                             w.entries, writers)
       ELSE Result(Put(file.fs, file.real, FileNode(TarGz(w.entries, "eof"))),
                   "ok", "nil", <<>>, file.real, w.entries, {})

\* compress from os.Create on
compressCreated(f, file, inPath, outFilePath, subPath, rmFails) ==
    IF file.err # "nil" THEN Result(f, "err", file.err, <<>>, <<>>, <<>>, {})
    ELSE compressWritten(file,
                         writeDirectory(file.fs, inPath, subPath, file.real, Going(<<>>)),
                         outFilePath, rmFails)

\* a faulty compress, which does not reject a directory without entries.
\* The formula of C4 tells it from compress.
compressAnyDirectory(f, inPath, outFilePath, subPath, rmFails) ==
    LET files == ReadDir(f, inPath)
    IN IF files.err # "nil" THEN Result(f, "err", files.err, <<>>, <<>>, <<>>, {})
       ELSE compressCreated(f, Create(f, outFilePath), inPath, outFilePath, subPath, rmFails)

\* a faulty compress, which creates the archive file before it reads the
\* input directory.  The formula of C6 tells it from compress.
compressCreateFirst(f, inPath, outFilePath, subPath, rmFails) ==
    LET file == Create(f, outFilePath)
        files == ReadDir(file.fs, inPath)
    IN IF file.err # "nil" THEN Result(f, "err", file.err, <<>>, <<>>, <<>>, {})
       ELSE IF files.err # "nil"
            THEN Result(file.fs, "err", files.err, <<>>, file.real, <<>>, {"file"})
       ELSE IF files.names = <<>>
            THEN Result(file.fs, "err", "targz: input directory is empty", <<>>, file.real,
                        <<>>, {"file"})
       ELSE compressCreated(f, file, inPath, outFilePath, subPath, rmFails)

\* compress
compress(f, inPath, outFilePath, subPath, rmFails) ==
    LET files == ReadDir(f, inPath)
    IN IF files.err # "nil" THEN Result(f, "err", files.err, <<>>, <<>>, <<>>, {})
       ELSE IF files.names = <<>>
            THEN Result(f, "err", "targz: input directory is empty", <<>>, <<>>, <<>>, {})
       ELSE compressCreated(f, Create(f, outFilePath), inPath, outFilePath, subPath, rmFails)

\* a faulty undo, which removes the directory that holds the shallowest
\* directory mkdirAll made.  The formula of C15 tells it from Undo.
UndoParent(r, undoDir, rmFails) ==
    IF r.outcome # "err" \/ undoDir = <<>> THEN [r EXCEPT !.undoDir = undoDir]
    ELSE [r EXCEPT !.fs = RemoveAll(r.fs, Dir(undoDir)), !.undoDir = undoDir]

\* a faulty undo, which removes nothing.  The formula of C3 tells it from Undo.
UndoNothing(r, undoDir, rmFails) == [r EXCEPT !.undoDir = undoDir]

\* the deferred undo of Compress and Extract, run when r returns an error.
\* rmFails = "dir": the os.RemoveAll of the undo fails.
Undo(r, undoDir, rmFails) ==
    IF r.outcome # "err" THEN [r EXCEPT !.undoDir = undoDir]
    ELSE IF undoDir = <<>> THEN r
    ELSE IF rmFails = "dir" THEN [r EXCEPT !.outcome = "exit", !.undoDir = undoDir]
    ELSE [r EXCEPT !.fs = RemoveAll(r.fs, undoDir), !.undoDir = undoDir]

\* a faulty Compress, which returns the wildcard error without the undo.
\* The formula of C7 tells it from CompressMade.
CompressMadeNoUndo(md, in, out, rmFails) ==
    LET star == Contains(in, Star)
        inPath == IF star THEN SubSeq(in, 1, Len(in) - 1) ELSE in
        subPath == IF star THEN inPath ELSE Dir(in)
    IN IF md.err # "nil" THEN Result(md.fs, "err", md.err, <<>>, <<>>, <<>>, {})
       ELSE IF Contains(SplitDir(in), Star)
            THEN Result(md.fs, "err", "the wildcard can be used only in the last path element",
                        md.undoDir, <<>>, <<>>, {})
       ELSE Undo(compress(md.fs, inPath, out, subPath, rmFails), md.undoDir, rmFails)

\* Compress from the result md of mkdirAll on, the paths made absolute
CompressMade(md, in, out, rmFails) ==
    LET star == Contains(in, Star)
        inPath == IF star THEN SubSeq(in, 1, Len(in) - 1) ELSE in
        subPath == IF star THEN inPath ELSE Dir(in)
    IN IF md.err # "nil" THEN Result(md.fs, "err", md.err, <<>>, <<>>, <<>>, {})
       ELSE IF Contains(SplitDir(in), Star)
            THEN Undo(Result(md.fs, "err", "the wildcard can be used only in the last path element",
                             <<>>, <<>>, <<>>, {}), md.undoDir, rmFails)
       ELSE Undo(compress(md.fs, inPath, out, subPath, rmFails), md.undoDir, rmFails)

\* Compress
Compress(f, inputFilePath, outputFilePath, rmFails) ==
    LET abs == makeAbsolute(stripTrailingSlashes(inputFilePath), outputFilePath)
    IN CompressMade(mkdirAll(f, Dir(abs.out)), abs.in, abs.out, rmFails)

\* a faulty turn of the loop of extract, which does not flush the payload
\* into the file it created.  The formula of C1 tells it from extractEntry.
extractEntryUnflushed(r, header, made, file) ==
    IF made.err # "nil" THEN [r EXCEPT !.fs = made.fs, !.outcome = "err", !.err = made.err]
    ELSE IF file.err # "nil" THEN [r EXCEPT !.fs = made.fs, !.outcome = "err", !.err = file.err]
    ELSE IF header.short
         THEN [r EXCEPT !.fs = file.fs, !.outcome = "panic", !.err = "unexpected EOF",
                        !.entries = Append(r.entries, header), !.leaked = {"file"}]
    ELSE [r EXCEPT !.fs = file.fs, !.entries = Append(r.entries, header)]

\* one turn of the loop of extract: the entry header written under directory.
\* made is what os.MkdirAll returned and file what os.Create returned.
extractEntry(r, header, made, file) ==
    IF made.err # "nil" THEN [r EXCEPT !.fs = made.fs, !.outcome = "err", !.err = made.err]
    ELSE IF file.err # "nil" THEN [r EXCEPT !.fs = made.fs, !.outcome = "err", !.err = file.err]
    ELSE IF header.short
         THEN [r EXCEPT !.fs = file.fs, !.outcome = "panic", !.err = "unexpected EOF",
                        !.entries = Append(r.entries, header), !.leaked = {"file"}]
    ELSE [r EXCEPT !.fs = Put(file.fs, file.real,
                              FileNode(IF header.size = 0 THEN Raw(<<>>) ELSE header.payload)),
                   !.entries = Append(r.entries, header)]

extractInto(r, header, made, filename) ==
    extractEntry(r, header, made, Create(made.fs, filename))

\* the loop of extract over the entries of the stream
RECURSIVE extractEntries(_, _, _)
extractEntries(r, es, directory) ==
    IF r.outcome # "ok" \/ es = <<>> THEN r
    ELSE extractEntries(
             extractInto(r, Head(es),
                         MkdirAll(r.fs, Join(directory, Dir(Head(es).name))),
                         Join(Join(directory, Dir(Head(es).name)), Base(Head(es).name))),
             Tail(es), directory)

\* extract after the stream is read to its end
extractEnd(r, tail) ==
    IF r.outcome = "ok" /\ tail # "eof"
    THEN [r EXCEPT !.outcome = "err", !.err = "unexpected EOF"]
    ELSE r

\* extract.  The stream is small: the buffered reader holds all of it after
\* the first read, so what the loop writes does not change what it reads.
extract(f, filePath, directory) ==
    LET file == Stat(f, filePath)
    IN IF file.err # "nil" THEN Result(f, "err", file.err, <<>>, <<>>, <<>>, {})
       ELSE IF file.kind = "dir" THEN Result(f, "err", "EISDIR", <<>>, <<>>, <<>>, {})
       ELSE IF f[file.real].data.fmt # "targz"
            THEN Result(f, "err", "gzip: invalid header", <<>>, <<>>, <<>>, {})
       ELSE extractEnd(extractEntries(Result(f, "ok", "nil", <<>>, <<>>, <<>>, {}),
                                      f[file.real].data.entries, directory),
                       f[file.real].data.tail)

\* a faulty Extract, whose deferred function never sees the error of extract.
\* The formula of C10 tells it from ExtractMade.
ExtractMadeNoUndo(md, in, out, rmFails) ==
    IF md.err # "nil" THEN Result(md.fs, "err", md.err, <<>>, <<>>, <<>>, {})
    ELSE [extract(md.fs, in, out) EXCEPT !.undoDir = md.undoDir]

\* Extract from the result md of mkdirAll on, the paths made absolute
ExtractMade(md, in, out, rmFails) ==
    IF md.err # "nil" THEN Result(md.fs, "err", md.err, <<>>, <<>>, <<>>, {})
    ELSE Undo(extract(md.fs, in, out), md.undoDir, rmFails)

\* Extract
Extract(f, inputFilePath, outputFilePath, rmFails) ==
    LET abs == makeAbsolute(inputFilePath, stripTrailingSlashes(outputFilePath))
    IN ExtractMade(mkdirAll(f, abs.out), abs.in, abs.out, rmFails)

----------------------------------------------------------------------------
(* The program: calls of Compress and Extract on a file system             *)

\* how many calls one behaviour makes
MaxCalls == 2

X == Raw(<<"x">>)
Empty == Raw(<<>>)

MkFS(S) == [k \in {e[1] : e \in S} |-> (CHOOSE e \in S : e[1] = k)[2]]

\* the root and the working directory /t
BaseTree == {<<Root, DirNode>>, <<Cwd, DirNode>>}

\* nothing at the source path /t/d
NoSource == {}

\* an empty directory
EmptySource == {<<<<"/", "t", "/", "d">>, DirNode>>}

\* files, a sub-directory with a file, an empty sub-directory, and beside
\* it a second directory that the pattern /t/d* matches
FilesSource ==
    {<<<<"/", "t", "/", "d">>, DirNode>>, <<<<"/", "t", "/", "d", "/", "s">>, DirNode>>, <<<<"/", "t", "/", "d", "/", "s", "/", "f">>, FileNode(X)>>,
     <<<<"/", "t", "/", "d", "/", "g">>, FileNode(Empty)>>, <<<<"/", "t", "/", "d", "/", "e">>, DirNode>>,
     <<<<"/", "t", "/", "d", "c">>, DirNode>>, <<<<"/", "t", "/", "d", "c", "/", "g">>, FileNode(X)>>}

\* a link to an empty file
LinkSource == {<<<<"/", "t", "/", "d">>, DirNode>>, <<<<"/", "t", "/", "d", "/", "f">>, FileNode(Empty)>>, <<<<"/", "t", "/", "d", "/", "l">>, LinkNode(<<"/", "t", "/", "d", "/", "f">>)>>}

\* a link to a file with bytes
FullLinkSource == {<<<<"/", "t", "/", "d">>, DirNode>>, <<<<"/", "t", "/", "d", "/", "f">>, FileNode(X)>>, <<<<"/", "t", "/", "d", "/", "l">>, LinkNode(<<"/", "t", "/", "d", "/", "f">>)>>}

\* a dangling link
DanglingSource == {<<<<"/", "t", "/", "d">>, DirNode>>, <<<<"/", "t", "/", "d", "/", "f">>, FileNode(X)>>, <<<<"/", "t", "/", "d", "/", "l">>, LinkNode(<<"/", "t", "/", "n">>)>>}

SourceTrees == {NoSource, EmptySource, FilesSource, LinkSource, FullLinkSource, DanglingSource}

\* a sound archive at the archive path /t/a
SoundArchive == {<<<<"/", "t", "/", "a">>, FileNode(TarGz(<<Entry(<<"/", "d", "/", "f">>, "reg", <<>>, 1, X, FALSE)>>, "eof"))>>}

\* an archive that breaks off inside the payload of its second entry
ShortArchive ==
    {<<<<"/", "t", "/", "a">>, FileNode(TarGz(<<Entry(<<"/", "d", "/", "f">>, "reg", <<>>, 1, X, FALSE),
                              Entry(<<"/", "d", "/", "g">>, "reg", <<>>, 1, X, TRUE)>>, "bad"))>>}

\* an archive that is malformed after its first entry
BrokenArchive == {<<<<"/", "t", "/", "a">>, FileNode(TarGz(<<Entry(<<"/", "d", "/", "f">>, "reg", <<>>, 1, X, FALSE)>>, "bad"))>>}

\* a file that is no archive at /t/a, and a regular file at the output path /t/o
PlainFiles == {<<<<"/", "t", "/", "a">>, FileNode(X)>>, <<<<"/", "t", "/", "o">>, FileNode(X)>>}

\* a directory at the archive path
DirAtArchive == {<<<<"/", "t", "/", "a">>, DirNode>>}

\* an output directory that holds a tree of the source's name already
Populated ==
    {<<<<"/", "t", "/", "o">>, DirNode>>, <<<<"/", "t", "/", "o", "/", "q">>, DirNode>>, <<<<"/", "t", "/", "o", "/", "q", "/", "d">>, DirNode>>,
     <<<<"/", "t", "/", "o", "/", "q", "/", "d", "/", "z">>, FileNode(X)>>}

\* an archive of an earlier call inside the source directory
ArchiveInSource ==
    {<<<<"/", "t", "/", "d", "/", "a">>,
       FileNode(TarGz(<<Entry(<<"/", "d", "/", "g">>, "reg", <<>>, 0, Empty, FALSE)>>, "eof"))>>}

\* the file systems a behaviour starts from: every source tree with nothing
\* else, the tree of files with each other tree, and the trees whose Compress
\* fails, before or after it creates the archive, with an archive in place
InitFS ==
    {MkFS(BaseTree \cup s) : s \in SourceTrees}
    \cup {MkFS(BaseTree \cup FilesSource \cup o) :
             o \in {SoundArchive, BrokenArchive, ShortArchive, PlainFiles, DirAtArchive, Populated,
                    ArchiveInSource}}
    \cup {MkFS(BaseTree \cup s \cup SoundArchive) : s \in {NoSource, EmptySource, DanglingSource}}

SourceArgs == {<<"d", "/">>, <<"/", "t", "/", "d", "*">>, <<"/", "t", "/", "*", "/", "d">>}
ArchiveArgs == {<<"/", "t", "/", "a">>, <<"/", "t", "/", "o", "/", "q", "/", "a">>, <<"/", "t", "/", "d", "/", "a">>}
OutputArgs == {<<"o", "/", "q", "/">>, <<"/", "t">>, <<"/", "t", "/", "a">>, <<"/", "t", "/", "d", "/", "l">>}
RemoveFaults == {"none", "file", "dir"}

Call(op, in, out, pre, r) ==
    [op |-> op, in |-> in, out |-> out, pre |-> pre,
     outcome |-> r.outcome, err |-> r.err, undoDir |-> r.undoDir, arch |-> r.arch,
     entries |-> r.entries, leaked |-> r.leaked]

\* the process makes calls while it lives
Alive ==
    /\ Len(calls) < MaxCalls
    /\ IF calls = <<>> THEN TRUE ELSE calls[Len(calls)].outcome \in {"ok", "err"}

Init ==
    /\ fs \in InitFS
    /\ calls = <<>>

CompressCall(in, out, rmFails) ==
    /\ Alive
    /\ LET r == Compress(fs, in, out, rmFails)
       IN /\ fs' = r.fs
          /\ calls' = Append(calls, Call("Compress", in, out, fs, r))

ExtractCall(in, out, rmFails) ==
    /\ Alive
    /\ LET r == Extract(fs, in, out, rmFails)
       IN /\ fs' = r.fs
          /\ calls' = Append(calls, Call("Extract", in, out, fs, r))

\* the operating system performs every removal the package asks for
Next ==
    \/ \E in \in SourceArgs, out \in ArchiveArgs : CompressCall(in, out, "none")
    \/ \E in \in ArchiveArgs, out \in OutputArgs : ExtractCall(in, out, "none")

Spec == Init /\ [][Next]_vars

\* a removal of the deferred cleanup may fail
NextFault ==
    \/ \E in \in SourceArgs, out \in ArchiveArgs, rmFails \in RemoveFaults :
          CompressCall(in, out, rmFails)
    \/ \E in \in ArchiveArgs, out \in OutputArgs, rmFails \in RemoveFaults \ {"file"} :
          ExtractCall(in, out, rmFails)

SpecFault == Init /\ [][NextFault]_vars

----------------------------------------------------------------------------
(* The claims.  A state is reached when a call has returned, panicked or   *)
(* ended the process; fs is the file system that call left.                *)

\* the last call, and the one before it
Last == calls[Len(calls)]
Before == calls[Len(calls) - 1]

\* something is at path p, whatever it is
Exists(f, p) == Lstat(f, p).err = "nil"

\* path p leads to something that is not a directory
NotADirectory(f, p) == Stat(f, p).err = "nil" /\ Stat(f, p).kind # "dir"

\* what is at path p: a set with the node, or the empty set
NodeAt(f, p) == IF Stat(f, p).err = "nil" THEN {f[Stat(f, p).real]} ELSE {}

\* the absolute path p and the paths of its parents, but for the root
Prefixes(p) == {SubSeq(p, 1, j) : j \in {i \in 1..Len(p) : i = Len(p) \/ p[i + 1] = Sep}}

\* the paths a call is given, made absolute: the source directory of
\* Compress, the archive, and the directory mkdirAll is asked to provide
SourcePath(c) == Abs(stripTrailingSlashes(c.in))
ArchivePath(c) == IF c.op = "Compress" THEN Abs(c.out) ELSE Abs(c.in)
DirPath(c) == IF c.op = "Compress" THEN Dir(Abs(c.out)) ELSE Abs(stripTrailingSlashes(c.out))

\* no directory on the way to DirPath(c) that was missing before call c,
\* the last call, is there now
NoneCreatedRemains(c) == \A p \in Prefixes(DirPath(c)) : ~Exists(c.pre, p) => ~Exists(fs, p)

\* the regular files of the tree under the directory at path p: each with
\* its path below p and its contents
TreeFiles(f, p) ==
    IF Stat(f, p).err # "nil" THEN {}
    ELSE {<<SubSeq(k, Len(Stat(f, p).real) + 1, Len(k)), f[k].data>> :
             k \in {x \in DOMAIN f : Under(x, Stat(f, p).real) /\ f[x].kind = "file"}}

\* the directory at path p is given without a symbolic link and holds
\* directories and regular files only, at least one regular file
PlainTree(f, p) ==
    /\ Lstat(f, p).err = "nil" /\ Lstat(f, p).kind = "dir" /\ Lstat(f, p).real = p
    /\ \A k \in DOMAIN f : Under(k, p) => f[k].kind \in {"dir", "file"}
    /\ \E k \in DOMAIN f : Under(k, p) /\ f[k].kind = "file"

\* a file can be created at the absolute path a: every parent of a is a
\* directory or missing below a directory, and a is no directory
Creatable(f, a) ==
    /\ \A p \in Prefixes(Dir(a)) : Stat(f, p).err \in {"nil", "ENOENT"} /\ ~NotADirectory(f, p)
    /\ \A p \in Prefixes(Dir(a)) : Stat(f, p).err = "ENOENT" => ~Exists(f, p)
    /\ Stat(f, a).err \in {"nil", "ENOENT"}
    /\ Stat(f, a).err = "nil" => Stat(f, a).kind = "file"
    /\ Stat(f, a).err = "ENOENT" => ~Exists(f, a)

\* the directory at the absolute path o is there or can be made
Providable(f, o) ==
    \A p \in Prefixes(o) :
        /\ Stat(f, p).err \in {"nil", "ENOENT"}
        /\ ~NotADirectory(f, p)
        /\ Stat(f, p).err = "ENOENT" => ~Exists(f, p)

\* the last two calls are Compress(D, A) and then Extract(A, O)
RoundTrip ==
    /\ Len(calls) >= 2
    /\ Before.op = "Compress" /\ Last.op = "Extract"
    /\ ArchivePath(Last) = ArchivePath(Before)

\* the tree Extract left under O/<basename(D)> has the files of D, as D was
\* when Compress was called, and no other
SameTree ==
    TreeFiles(fs, Join(DirPath(Last), Base(SourcePath(Before))))
        = TreeFiles(Before.pre, SourcePath(Before))

\* C1 as it is stated: for every directory tree D with at least one regular
\* file, every archive path A and every output directory O, Compress(D, A)
\* followed by Extract(A, O) both succeed, and the tree under
\* O/<basename(D)> has the relative file paths and contents of D.
RoundTripAlways ==
    (/\ RoundTrip
     /\ Stat(Before.pre, SourcePath(Before)).err = "nil"
     /\ Stat(Before.pre, SourcePath(Before)).kind = "dir"
     /\ TreeFiles(Before.pre, SourcePath(Before)) # {})
        => Before.outcome = "ok" /\ Last.outcome = "ok" /\ SameTree

\* the case of C1 that holds: D is given without a symbolic link and holds
\* directories and regular files only, a file can be created at A, which is
\* outside D, O is there or can be made, and nothing is at O/<basename(D)>
RoundTripCase ==
    /\ RoundTrip
    /\ PlainTree(Before.pre, SourcePath(Before))
    /\ ~Under(ArchivePath(Before), SourcePath(Before))
    /\ Creatable(Before.pre, ArchivePath(Before))
    /\ Providable(Last.pre, DirPath(Last))
    /\ ~Exists(Last.pre, Join(DirPath(Last), Base(SourcePath(Before))))

\* C1, amended: for every directory tree D of directories and regular files
\* with at least one regular file, every archive path A outside D at which
\* a file can be created, and every output directory O that is there or can
\* be made and has nothing at O/<basename(D)>, Compress(D, A) followed by
\* Extract(A, O) both succeed, and the tree under O/<basename(D)> has
\* exactly the relative file paths and contents D had.
RoundTripHolds ==
    RoundTripCase => Before.outcome = "ok" /\ Last.outcome = "ok" /\ SameTree

\* C1's case: a tree with a file in a subdirectory went through both calls,
\* and the output directory was made by Extract
RoundTripWitness ==
    /\ RoundTripCase
    /\ \E t \in TreeFiles(fs, Join(DirPath(Last), Base(SourcePath(Before)))) :
          Len(t[1]) > 2 /\ t[2] = X
    /\ Last.undoDir # <<>>

\* C2: when Compress returns an error after mkdirAll created directories of
\* the parent path of the archive, none of the directories that call
\* created is there when it returns: the shallowest is gone, with all below.
CompressErrorRemovesCreatedDirs ==
    (calls # <<>> /\ Last.op = "Compress" /\ Last.outcome = "err" /\ Last.undoDir # <<>>)
        => NoneCreatedRemains(Last) /\ ~Exists(fs, Last.undoDir)

\* C2's case: compress failed after it created the archive file in a
\* directory that mkdirAll made below another directory it made
CompressErrorWitness ==
    /\ calls # <<>> /\ Last.op = "Compress" /\ Last.outcome = "err"
    /\ Last.undoDir # <<>> /\ Last.undoDir # DirPath(Last)
    /\ Last.arch # <<>>

\* C3: Extract of an archive path that does not exist returns an error, and
\* when it returns no directory of the output path that was missing before
\* the call is there.
ExtractMissingArchive ==
    (calls # <<>> /\ Last.op = "Extract" /\ Stat(Last.pre, ArchivePath(Last)).err # "nil")
        => Last.outcome = "err" /\ NoneCreatedRemains(Last)

\* C3's case: the archive is missing and mkdirAll made the output directory
ExtractMissingWitness ==
    /\ calls # <<>> /\ Last.op = "Extract"
    /\ Stat(Last.pre, ArchivePath(Last)).err = "ENOENT"
    /\ Last.undoDir # <<>> /\ Last.err = "ENOENT"

\* C4: Compress of a source directory without entries returns an error and
\* never creates or truncates the archive path: what was at the archive
\* path before the call, a file or nothing, is there after it.
EmptySourceWritesNothing ==
    (/\ calls # <<>> /\ Last.op = "Compress"
     /\ ReadDir(Last.pre, SourcePath(Last)).err = "nil"
     /\ ReadDir(Last.pre, SourcePath(Last)).names = <<>>)
        => /\ Last.outcome = "err"
           /\ Last.arch = <<>>
           /\ NodeAt(fs, ArchivePath(Last)) = NodeAt(Last.pre, ArchivePath(Last))
           /\ Exists(fs, ArchivePath(Last)) = Exists(Last.pre, ArchivePath(Last))

\* C4's case: the empty directory is rejected while an archive of an
\* earlier call is at the archive path
EmptySourceWitness ==
    /\ calls # <<>> /\ Last.op = "Compress"
    /\ Last.err = "targz: input directory is empty"
    /\ NodeAt(Last.pre, ArchivePath(Last)) # {}

\* C5: when the directory path given to mkdirAll, by Extract or by Compress,
\* or a parent of it is there and is not a directory, the call returns a
\* not-a-directory error, and creates and changes nothing.
OutputNotADirectory ==
    (calls # <<>> /\ \E p \in Prefixes(DirPath(Last)) : NotADirectory(Last.pre, p))
        => Last.outcome = "err" /\ Last.err = "ENOTDIR" /\ fs = Last.pre

\* C5's case: Extract is given a regular file as its output path
OutputNotADirectoryWitness ==
    /\ calls # <<>> /\ Last.op = "Extract"
    /\ NotADirectory(Last.pre, DirPath(Last))
    /\ Lstat(Last.pre, DirPath(Last)).kind = "file"

\* the source path of Compress, without a wildcard, leads to nothing
SourceMissing(c) ==
    /\ c.op = "Compress"
    /\ ~Contains(SourcePath(c), Star)
    /\ Stat(c.pre, SourcePath(c)).err = "ENOENT"

\* C6 as it is stated: Compress of a source path that does not exist returns
\* an error, and when it returns no archive file is at the output path and
\* no output directory the call created remains.
MissingSourceNoArchive ==
    (calls # <<>> /\ SourceMissing(Last))
        => /\ Last.outcome = "err"
           /\ ~Exists(fs, ArchivePath(Last))
           /\ NoneCreatedRemains(Last)

\* C6, amended: Compress of a source path that does not exist returns an
\* error, and when it returns it has neither created nor changed a file at
\* the output path (what was there before the call is there unchanged) and
\* no output directory the call created remains.
MissingSourceWritesNothing ==
    (calls # <<>> /\ SourceMissing(Last))
        => /\ Last.outcome = "err"
           /\ Last.arch = <<>>
           /\ NodeAt(fs, ArchivePath(Last)) = NodeAt(Last.pre, ArchivePath(Last))
           /\ Exists(fs, ArchivePath(Last)) = Exists(Last.pre, ArchivePath(Last))
           /\ NoneCreatedRemains(Last)

\* C6's case: the source is missing, and mkdirAll made the directory of the
\* archive before compress found that out
MissingSourceWitness ==
    /\ calls # <<>> /\ SourceMissing(Last)
    /\ Last.undoDir # <<>> /\ Last.err = "ENOENT"

\* the source path of Compress has the wildcard before its last element
WildcardMisplaced(c) ==
    /\ c.op = "Compress"
    /\ \E i \in 1..(Len(Parts(SourcePath(c))) - 1) : Contains(Parts(SourcePath(c))[i], Star)

\* C7: Compress with the wildcard in an element of the source path other
\* than the last returns an error, writes no archive file, and leaves no
\* output directory the call created.
MisplacedWildcardRejected ==
    (calls # <<>> /\ WildcardMisplaced(Last))
        => /\ Last.outcome = "err"
           /\ Last.arch = <<>>
           /\ NodeAt(fs, ArchivePath(Last)) = NodeAt(Last.pre, ArchivePath(Last))
           /\ NoneCreatedRemains(Last)

\* C7's case: the wildcard error is returned after mkdirAll made directories
MisplacedWildcardWitness ==
    /\ calls # <<>> /\ WildcardMisplaced(Last)
    /\ Last.undoDir # <<>>
    /\ Last.err = "the wildcard can be used only in the last path element"

\* the regular files under the paths the pattern of call c matches
MatchedFiles(c) ==
    {k \in DOMAIN c.pre :
        /\ c.pre[k].kind = "file"
        /\ \E i \in 1..Len(Glob(c.pre, SourcePath(c))) : Under(k, Glob(c.pre, SourcePath(c))[i])}

\* entry e of the archive is file k: it has the contents of k, and its name
\* is the end of the path k
EntryOf(e, k, f) ==
    /\ e.payload = f[k].data
    /\ Len(e.name) <= Len(k)
    /\ SubSeq(k, Len(k) - Len(e.name) + 1, Len(k)) = e.name

\* C8: Compress with the wildcard in the last element of the source path
\* only succeeds, and the archive has the files of every path the pattern
\* matches and of no other path.  (The paths matched hold directories and
\* regular files only, and a file can be created at the archive path, which
\* is outside them.)
WildcardArchivesMatches ==
    (/\ calls # <<>> /\ Last.op = "Compress"
     /\ Contains(Base(SourcePath(Last)), Star)
     /\ ~WildcardMisplaced(Last)
     /\ MatchedFiles(Last) # {}
     /\ \A k \in DOMAIN Last.pre : Last.pre[k].kind # "link"
     /\ Creatable(Last.pre, ArchivePath(Last))
     /\ \A i \in 1..Len(Glob(Last.pre, SourcePath(Last))) :
           ~Under(ArchivePath(Last), Glob(Last.pre, SourcePath(Last))[i]))
        => /\ Last.outcome = "ok"
           /\ \A k \in MatchedFiles(Last) :
                 \E i \in 1..Len(Last.entries) : EntryOf(Last.entries[i], k, Last.pre)
           /\ \A i \in 1..Len(Last.entries) :
                 \E k \in MatchedFiles(Last) : EntryOf(Last.entries[i], k, Last.pre)

\* C9: every entry name Compress writes is relative: it does not begin with
\* the separator, and without a wildcard it is the last element of the
\* source path followed by the path of the entry below the source directory.
EntryNamesRelative ==
    (calls # <<>> /\ Last.op = "Compress" /\ Last.outcome = "ok")
        => \A i \in 1..Len(Last.entries) :
              /\ Last.entries[i].name # <<>>
              /\ Last.entries[i].name[1] # Sep
              /\ ~Contains(SourcePath(Last), Star)
                    => \E k \in DOMAIN Last.pre :
                          /\ Under(k, SourcePath(Last)) /\ k # SourcePath(Last)
                          /\ Last.entries[i].name
                                = Base(SourcePath(Last))
                                    \o SubSeq(k, Len(SourcePath(Last)) + 1, Len(k))

\* what the last call, an Extract, wrote and left under its output path
Written ==
    IF Stat(fs, DirPath(Last)).err # "nil" THEN {}
    ELSE {k \in DOMAIN fs :
             /\ Under(k, Stat(fs, DirPath(Last)).real)
             /\ k \in DOMAIN Last.pre => fs[k] # Last.pre[k]}

\* C10 as it is stated: whenever Extract returns an error, nothing that call
\* wrote remains under the output path, whether or not the output directory
\* was there before the call.
ExtractErrorLeavesNothing ==
    (calls # <<>> /\ Last.op = "Extract" /\ Last.outcome = "err") => Written = {}

\* C10, amended: whenever Extract returns an error and the output directory
\* was not there before the call, nothing that call wrote remains under the
\* output path, whether providing the directory or reading the archive
\* failed.
ExtractErrorUndoesNewOutput ==
    (/\ calls # <<>> /\ Last.op = "Extract" /\ Last.outcome = "err"
     /\ Stat(Last.pre, DirPath(Last)).err = "ENOENT")
        => Written = {} /\ NoneCreatedRemains(Last)

\* C10's case: the archive broke off after extract had written an entry
\* into the output directory that mkdirAll made
ExtractErrorWitness ==
    /\ calls # <<>> /\ Last.op = "Extract" /\ Last.outcome = "err"
    /\ Stat(Last.pre, DirPath(Last)).err = "ENOENT"
    /\ Last.entries # <<>>
    /\ Last.err = "unexpected EOF"

\* C11: whenever Compress returns an error in a call in which mkdirAll
\* created no directory and compress had created the archive file, no file
\* is at the output path when Compress returns.
CompressErrorRemovesArchive ==
    (/\ calls # <<>> /\ Last.op = "Compress" /\ Last.outcome = "err"
     /\ Last.undoDir = <<>> /\ Last.arch # <<>>)
        => ~Exists(fs, ArchivePath(Last)) /\ Last.arch \notin DOMAIN fs

\* C11's case: the walk failed after entries were written into an archive
\* file created in a directory that was there already
CompressErrorArchiveWitness ==
    /\ calls # <<>> /\ Last.op = "Compress" /\ Last.outcome = "err"
    /\ Last.undoDir = <<>> /\ Last.arch # <<>>
    /\ Last.entries # <<>>
    /\ ~Exists(Last.pre, ArchivePath(Last))

\* C12: if the cleanup of a failing Compress or Extract (removing the
\* directories made, or the partial archive file) itself fails, the call
\* still returns to its caller, with the error of the original failure:
\* the package never ends the process.
CleanupFailureReturns ==
    calls # <<>> => Last.outcome # "exit"

\* C13: when reading the payload of an entry fails during Extract (the
\* archive is cut or corrupt), the extraction is aborted, Extract returns
\* an error to its caller, and the directories mkdirAll made are removed as
\* for any other error of Extract.
PayloadFailureReturned ==
    (/\ calls # <<>> /\ Last.op = "Extract"
     /\ \E i \in 1..Len(Last.entries) : Last.entries[i].short)
        => Last.outcome = "err" /\ NoneCreatedRemains(Last)

\* the symbolic links and the regular files under the source of call c
SourceLinks(c) == {k \in DOMAIN c.pre : Under(k, SourcePath(c)) /\ c.pre[k].kind = "link"}
SourceFiles(c) == {k \in DOMAIN c.pre : Under(k, SourcePath(c)) /\ c.pre[k].kind = "file"}

\* C14: for every symbolic link in the source tree Compress succeeds and
\* the archive has a link entry whose link target is the resolved real path
\* of the link; every other entry that is no directory is written as a
\* regular file whose payload is the bytes of the file.  (The links lead to
\* regular files, and a file can be created at the archive path, which is
\* outside the source.)
LinksArchivedAsLinks ==
    (/\ calls # <<>> /\ Last.op = "Compress"
     /\ Lstat(Last.pre, SourcePath(Last)).err = "nil"
     /\ Lstat(Last.pre, SourcePath(Last)).kind = "dir"
     /\ SourceLinks(Last) # {}
     /\ \A k \in SourceLinks(Last) :
           Stat(Last.pre, k).err = "nil" /\ Stat(Last.pre, k).kind = "file"
     /\ Creatable(Last.pre, ArchivePath(Last))
     /\ ~Under(ArchivePath(Last), SourcePath(Last)))
        => /\ Last.outcome = "ok"
           /\ \A k \in SourceLinks(Last) :
                 \E i \in 1..Len(Last.entries) :
                    /\ Last.entries[i].typeflag = "symlink"
                    /\ Last.entries[i].linkname = EvalSymlinks(Last.pre, k).path
           /\ \A k \in SourceFiles(Last) :
                 \E i \in 1..Len(Last.entries) :
                    /\ Last.entries[i].typeflag = "reg"
                    /\ Last.entries[i].payload = Last.pre[k].data
                    /\ Last.entries[i].size = Size(Last.pre[k].data)

\* the directories of file system f
Directories(f) == {k \in DOMAIN f : f[k].kind = "dir"}

\* C15: for every call of Compress or Extract, successful or failed, every
\* directory that was there before the call is there after it: the undo of
\* mkdirAll removes only the shallowest directory the call made, with what
\* is below it, and nothing when no directory of the path was missing.
DirectoriesKept ==
    calls # <<>>
        => /\ Directories(Last.pre) \subseteq Directories(fs)
           /\ (\A p \in Prefixes(DirPath(Last)) : Exists(Last.pre, p)) => Last.undoDir = <<>>
           /\ Last.undoDir # <<>> => ~Exists(Last.pre, Last.undoDir)

\* C15's case: a call failed and its undo removed directories, next to
\* directories that were there before
DirectoriesKeptWitness ==
    /\ calls # <<>> /\ Last.outcome = "err"
    /\ Last.undoDir # <<>> /\ ~Exists(fs, Last.undoDir)
    /\ Cardinality(Directories(Last.pre)) > 3

\* C16: whenever Compress returns an error, the file system after the call
\* equals the file system before it: the same directories, files and
\* contents, with any file that was at the archive path.
CompressErrorRestores ==
    (calls # <<>> /\ Last.op = "Compress" /\ Last.outcome = "err") => fs = Last.pre

\* C17: on every way out of compress and of extract, successful or failing,
\* every file and stream the call opened (the archive file, the gzip and
\* tar writers, the input file, the gzip reader, each extracted file) is
\* closed when the call returns.
HandlesClosed ==
    (calls # <<>> /\ Last.outcome \in {"ok", "err"}) => Last.leaked = {}

\* the tree at and below the source directory of call c in file system f
SourceTree(f, c) == [k \in {x \in DOMAIN f : Under(x, SourcePath(c))} |-> f[k]]

\* C18: Compress never creates, changes or deletes anything at or below the
\* source directory: whatever the archive path is, inside the source
\* directory too, and whether the call succeeds or fails, the source tree
\* after the call is the source tree before it.
SourceUntouched ==
    (calls # <<>> /\ Last.op = "Compress") => SourceTree(fs, Last) = SourceTree(Last.pre, Last)

\* the prefix Compress has writeTarGz strip from the paths of call c
StripPrefix(c) ==
    IF Contains(SourcePath(c), Star) THEN SubSeq(SourcePath(c), 1, Len(SourcePath(c)) - 1)
    ELSE Dir(SourcePath(c))

\* C19: in writeTarGz, for every entry that is no directory, a symbolic
\* link too, the resolved strip prefix is a proper prefix of the resolved
\* path of the entry, so that the slice evaluatedPath[len(subPath):] is in
\* range and the name is the path below the prefix; hence no two entries of
\* one archive have the same name.
EntryNamesDistinct ==
    (calls # <<>> /\ Last.op = "Compress")
        => /\ Last.outcome # "panic"
           /\ \A i \in 1..Len(Last.entries) :
                 Last.entries[i].typeflag = "symlink"
                    => /\ HasPrefix(Last.entries[i].linkname, StripPrefix(Last))
                       /\ Last.entries[i].name
                             = SubSeq(Last.entries[i].linkname, Len(StripPrefix(Last)) + 1,
                                      Len(Last.entries[i].linkname))
           /\ \A i, j \in 1..Len(Last.entries) :
                 i # j => Last.entries[i].name # Last.entries[j].name

====
